---- MODULE Spec2Model ----
(***************************************************************************)
(* A state-machine model of the chess board of Chess.py: the Tk button     *)
(* grid, the two-click selection handler select_piece, the move patterns   *)
(* of allowed_piece_move, the attack scan in_check, the promotion dialog,  *)
(* the random mover random_ai_move and restart_game.                       *)
(*                                                                         *)
(* A square is the key of its button in self.squares ("a1" .. "h8"); the   *)
(* image a button shows is one of the twelve piece images or the blank     *)
(* image.  A Python exception raised inside a Tk callback ends the         *)
(* callback where it is raised and leaves every assignment made so far in  *)
(* place; the operators below return "KeyError" / "TypeError" for it.      *)
(***************************************************************************)
EXTENDS Integers, Sequences, FiniteSets, TLC

\* list(self.squares.keys()): set_squares inserts rank by rank, file a..h.
SquareKeys == <<
    "a1", "b1", "c1", "d1", "e1", "f1", "g1", "h1",
    "a2", "b2", "c2", "d2", "e2", "f2", "g2", "h2",
    "a3", "b3", "c3", "d3", "e3", "f3", "g3", "h3",
    "a4", "b4", "c4", "d4", "e4", "f4", "g4", "h4",
    "a5", "b5", "c5", "d5", "e5", "f5", "g5", "h5",
    "a6", "b6", "c6", "d6", "e6", "f6", "g6", "h6",
    "a7", "b7", "c7", "d7", "e7", "f7", "g7", "h7",
    "a8", "b8", "c8", "d8", "e8", "f8", "g8", "h8"
>>

KeySet == {SquareKeys[i] : i \in 1..Len(SquareKeys)}

\* list(self.squares.keys()).index(key), 1-based.
KeyIndex == [k \in KeySet |-> CHOOSE i \in 1..Len(SquareKeys) : SquareKeys[i] = k]

\* Python's None, and the value of an attribute (sq1, sq2, ...) not yet assigned.
None == "None"

\* self.ranks.find(sq[0]): the file of a square, 0 for "a" .. 7 for "h".
FileIdx(sq) == (KeyIndex[sq] - 1) % 8

\* int(sq[1]): the rank of a square, 1 .. 8.
RankNum(sq) == ((KeyIndex[sq] - 1) \div 8) + 1

\* self.ranks[x] + str(y): the key built from a file index and a rank number.
Key(x, y) == SquareKeys[(y - 1) * 8 + x + 1]

\* Whether self.squares[self.ranks[x] + str(y)] exists (otherwise a KeyError).
IsKey(x, y) == x \in 0..7 /\ y \in 1..8

\* The images: white_piece_refs, black_piece_refs and blank_image.
white_pieces == {"wk", "wq", "wr", "wb", "wn", "wp"}
black_pieces == {"bk", "bq", "br", "bb", "bn", "bp"}
blank_image == "blank"

\* The outcomes of a call that can raise.
Errors == {"KeyError", "TypeError"}

Abs(n) == IF n < 0 THEN -n ELSE n
Sgn(n) == IF n < 0 THEN -1 ELSE IF n > 0 THEN 1 ELSE 0
MinOf(S) == CHOOSE m \in S : \A n \in S : m <= n
MaxOf(S) == CHOOSE m \in S : \A n \in S : m >= n

\* get_piece_name: the text recorded in the move history for an image.
get_piece_name(img) ==
    CASE img = "wk" -> "White K" [] img = "wq" -> "White Q" [] img = "wr" -> "White R"
      [] img = "wb" -> "White B" [] img = "wn" -> "White N" [] img = "wp" -> "White P"
      [] img = "bk" -> "Black K" [] img = "bq" -> "Black Q" [] img = "br" -> "Black R"
      [] img = "bb" -> "Black B" [] img = "bn" -> "Black N" [] img = "bp" -> "Black P"
      [] OTHER -> "Unknown"

\* set_pieces: the image every button shows after the pieces are placed.
set_pieces ==
    [k \in KeySet |->
        LET x == FileIdx(k)
            y == RankNum(k)
        IN  CASE y = 1 -> CASE x = 0 -> "wr" [] x = 1 -> "wn" [] x = 2 -> "wb" [] x = 3 -> "wq"
                            [] x = 4 -> "wk" [] x = 5 -> "wb" [] x = 6 -> "wn" [] OTHER -> "wr"
              [] y = 2 -> "wp"
              [] y = 7 -> "bp"
              [] y = 8 -> CASE x = 0 -> "br" [] x = 1 -> "bn" [] x = 2 -> "bb" [] x = 3 -> "bq"
                            [] x = 4 -> "bk" [] x = 5 -> "bb" [] x = 6 -> "bn" [] OTHER -> "br"
              [] OTHER -> blank_image]

\* friendly_fire as it would be if it never saw a piece of the selecting colour.
friendly_fire_blind(squares, piece_color, sq2_button) == FALSE

\* friendly_fire: the target button shows a piece of the selecting colour.
friendly_fire(squares, piece_color, sq2_button) ==
    \/ piece_color = "white" /\ squares[sq2_button] \in white_pieces
    \/ piece_color = "black" /\ squares[sq2_button] \in black_pieces

\* FileBlocked as it would be if only white pieces stood in the way.
FileBlocked_white_only(squares, x, ya, yb) ==
    \E i \in (MinOf({ya, yb}) + 1)..(MaxOf({ya, yb}) - 1) : squares[Key(x, i)] \in white_pieces

\* Some button strictly between two squares of one file (x) or of one rank (y)
\* is not blank.
FileBlocked(squares, x, ya, yb) ==
    \E i \in (MinOf({ya, yb}) + 1)..(MaxOf({ya, yb}) - 1) : squares[Key(x, i)] # blank_image
RankBlocked(squares, y, xa, xb) ==
    \E i \in (MinOf({xa, xb}) + 1)..(MaxOf({xa, xb}) - 1) : squares[Key(i, y)] # blank_image

\* clear_path, rook/queen part (lines 231-245): the scan of the shared file, else
\* of the shared rank, returns False at a button that is not blank.
StraightBlocked(squares, sq1, sq2) ==
    IF FileIdx(sq1) = FileIdx(sq2)
    THEN FileBlocked(squares, FileIdx(sq1), RankNum(sq1), RankNum(sq2))
    ELSE IF RankNum(sq1) = RankNum(sq2)
    THEN RankBlocked(squares, RankNum(sq1), FileIdx(sq1), FileIdx(sq2))
    ELSE FALSE

\* How the diagonal walk of clear_path ends, given the steps k at which the
\* button looked up is missing or not blank.
WalkEnd(stops, x1, y1, dx, dy) ==
    IF stops = {} THEN "True"
    ELSE IF IsKey(x1 + MinOf(stops) * dx, y1 + MinOf(stops) * dy) THEN "False"
    ELSE "KeyError"

\* clear_path, bishop/queen part (lines 247-277): x runs over the files strictly
\* between the two squares while y1 steps by one rank towards sq2; the walk ends
\* at the first button that is not blank (False) or that does not exist (KeyError).
\* Nothing is walked when the two squares share a rank or a file.
DiagonalWalk(squares, x1, y1, x2, y2) ==
    IF x1 = x2 \/ y1 = y2 THEN "True"
    ELSE WalkEnd({k \in 1..(Abs(x2 - x1) - 1) :
                     \/ ~IsKey(x1 + k * Sgn(x2 - x1), y1 + k * Sgn(y2 - y1))
                     \/ squares[Key(x1 + k * Sgn(x2 - x1), y1 + k * Sgn(y2 - y1))]
                            # blank_image},
                 x1, y1, Sgn(x2 - x1), Sgn(y2 - y1))

\* clear_path(piece) for piece in "rook", "bishop", "queen".
clear_path(squares, piece, sq1, sq2) ==
    IF piece \in {"rook", "queen"} /\ StraightBlocked(squares, sq1, sq2) THEN "False"
    ELSE IF piece \in {"bishop", "queen"}
    THEN DiagonalWalk(squares, FileIdx(sq1), RankNum(sq1), FileIdx(sq2), RankNum(sq2))
    ELSE "True"

\* castle: not implemented, always False.
castle == FALSE

\* PawnMove as it would be if the square in front were not looked at on a
\* two-rank advance.
PawnMove_jumps(squares, sq1, sq2, sq2_button, dir, home, prey) ==
    \/ /\ RankNum(sq1) = home
       /\ RankNum(sq2) \in {home + dir, home + 2 * dir}
       /\ FileIdx(sq1) = FileIdx(sq2)
       /\ squares[sq2_button] = blank_image
    \/ /\ RankNum(sq2) = RankNum(sq1) + dir
       /\ FileIdx(sq1) = FileIdx(sq2)
       /\ squares[sq2_button] = blank_image
    \/ /\ RankNum(sq2) = RankNum(sq1) + dir
       /\ Abs(FileIdx(sq1) - FileIdx(sq2)) = 1
       /\ squares[sq2_button] \in prey

\* The pawn patterns of allowed_piece_move (lines 344-372); dir is +1 for a white
\* pawn and -1 for a black one, home its starting rank, prey the images it takes.
PawnMove(squares, sq1, sq2, sq2_button, dir, home, prey) ==
    \/ /\ RankNum(sq1) = home
       /\ RankNum(sq2) \in {home + dir, home + 2 * dir}
       /\ FileIdx(sq1) = FileIdx(sq2)
       /\ squares[sq2_button] = blank_image
       /\ RankNum(sq2) = home + 2 * dir => squares[Key(FileIdx(sq1), home + dir)] = blank_image
    \/ /\ RankNum(sq2) = RankNum(sq1) + dir
       /\ FileIdx(sq1) = FileIdx(sq2)
       /\ squares[sq2_button] = blank_image
    \/ /\ RankNum(sq2) = RankNum(sq1) + dir
       /\ Abs(FileIdx(sq1) - FileIdx(sq2)) = 1
       /\ squares[sq2_button] \in prey

\* The bishop and queen branches of allowed_piece_move: clear_path is asked
\* first (it may raise), the alignment test comes after it.
Sliding(path, aligned) ==
    IF path \in Errors THEN path
    ELSE IF path = "True" /\ aligned THEN "True" ELSE "False"

\* allowed_piece_move: "True" / "False", or the exception it raises.  It reads the
\* moving image from sq1_button, the geometry from sq1 and sq2, and the target's
\* occupancy (pawns only) from sq2_button.
allowed_piece_move(squares, sq1, sq1_button, sq2, sq2_button) ==
    LET img == squares[sq1_button]
        dr == Abs(RankNum(sq1) - RankNum(sq2))
        df == Abs(FileIdx(sq1) - FileIdx(sq2))
    IN  IF img = blank_image THEN "False"
        ELSE IF sq2 = None THEN "TypeError"
        ELSE IF img \in {"wb", "bb"}
        THEN Sliding(clear_path(squares, "bishop", sq1, sq2), dr = df)
        ELSE IF img \in {"wn", "bn"}
        THEN IF (dr = 2 /\ df = 1) \/ (dr = 1 /\ df = 2) THEN "True" ELSE "False"
        ELSE IF img \in {"wk", "bk"}
        THEN IF (dr < 2 /\ df < 2) \/ castle THEN "True" ELSE "False"
        ELSE IF img = "wp"
        THEN IF PawnMove(squares, sq1, sq2, sq2_button, 1, 2, black_pieces)
             THEN "True" ELSE "False"
        ELSE IF img = "bp"
        THEN IF PawnMove(squares, sq1, sq2, sq2_button, -1, 7, white_pieces)
             THEN "True" ELSE "False"
        ELSE IF img \in {"wq", "bq"}
        THEN Sliding(clear_path(squares, "queen", sq1, sq2), dr = 0 \/ df = 0 \/ dr = df)
        ELSE IF (dr = 0 \/ df = 0) /\ clear_path(squares, "rook", sq1, sq2) = "True"
        THEN "True" ELSE "False"

\* The first key of a set of indexes into the dictionary order, None if none.
FirstKey(found) == IF found = {} THEN None ELSE SquareKeys[MinOf(found)]

\* find_king: the first key, in dictionary order, whose button shows king_img.
find_king(squares, king_img) ==
    FirstKey({i \in 1..Len(SquareKeys) : squares[SquareKeys[i]] = king_img})

\* The loop of in_check stops at the first key of hits: the first button of the
\* enemy for which allowed_piece_move did not return False.
CheckScan(squares, hits, king, sq1, sq1_button, sq2, sq2_button) ==
    IF hits = {}
    THEN [result |-> "False", sq1 |-> sq1, sq1_button |-> sq1_button,
          sq2 |-> sq2, sq2_button |-> sq2_button]
    ELSE [result |-> allowed_piece_move(squares, FirstKey(hits), FirstKey(hits),
                                        king, sq2_button),
          sq1 |-> FirstKey(hits), sq1_button |-> FirstKey(hits),
          sq2 |-> king, sq2_button |-> sq2_button]

\* in_check with the king's key and the enemy's images worked out.
KingScan(squares, enemy, king, sq1, sq1_button, sq2, sq2_button) ==
    CheckScan(squares,
              {i \in 1..Len(SquareKeys) :
                  /\ squares[SquareKeys[i]] \in enemy
                  /\ allowed_piece_move(squares, SquareKeys[i], SquareKeys[i],
                                        king, sq2_button) # "False"},
              king, sq1, sq1_button, sq2, sq2_button)

\* in_check: scans, in dictionary order, the buttons showing a piece of the colour
\* opposite to piece_color and asks allowed_piece_move whether it reaches the king
\* of piece_color.  sq2 becomes the king's key while sq2_button stays the button
\* of the move under test.  The four fields are put back only on the path that
\* returns False; a True or a raised exception leaves them where the scan stopped.
\* With piece_color None neither branch runs and the answer is False.
in_check(squares, piece_color, sq1, sq1_button, sq2, sq2_button) ==
    IF piece_color = "white"
    THEN KingScan(squares, black_pieces, find_king(squares, "wk"),
                  sq1, sq1_button, sq2, sq2_button)
    ELSE IF piece_color = "black"
    THEN KingScan(squares, white_pieces, find_king(squares, "bk"),
                  sq1, sq1_button, sq2, sq2_button)
    ELSE [result |-> "False", sq1 |-> sq1, sq1_button |-> sq1_button,
          sq2 |-> sq2, sq2_button |-> sq2_button]

(***************************************************************************)
(* The state of the program.                                               *)
(***************************************************************************)
VARIABLES
    squares,              \* key -> the image its button shows (Button.image)
    buttons_pressed,      \* 0 = no selection, 1 = piece selected
    turns,                \* the half-move counter
    wk_moved, bk_moved, wr1_moved, wr2_moved, br1_moved, br2_moved,
    castled,
    move_history,         \* list of (sq1, sq2, piece name)
    highlighted_squares,  \* list of keys
    piece_color,          \* "white", "black" or None
    sq1, sq1_button,      \* the selected key and the key of the selected button
    sq2, sq2_button,      \* the target key and the key of the target button
    promos,               \* the open promotion dialogs: the colour each was opened for
    last,                 \* the callback that ran last and how it returned
    restarts,             \* how many times restart_game has run
    played,               \* how many moves were committed, over all games
    drawn                 \* the squares the user's presses are drawn from

vars == <<squares, buttons_pressed, turns, wk_moved, bk_moved, wr1_moved, wr2_moved,
          br1_moved, br2_moved, castled, move_history, highlighted_squares,
          piece_color, sq1, sq1_button, sq2, sq2_button, promos, last, restarts,
          played, drawn>>

\* The Board object as one record, so that a handler can be applied to the state
\* another handler leaves (random_ai_move calls select_piece).
Board ==
    [squares |-> squares, buttons_pressed |-> buttons_pressed, turns |-> turns,
     wk_moved |-> wk_moved, bk_moved |-> bk_moved, wr1_moved |-> wr1_moved,
     wr2_moved |-> wr2_moved, br1_moved |-> br1_moved, br2_moved |-> br2_moved,
     castled |-> castled, move_history |-> move_history,
     highlighted_squares |-> highlighted_squares, piece_color |-> piece_color,
     sq1 |-> sq1, sq1_button |-> sq1_button, sq2 |-> sq2, sq2_button |-> sq2_button,
     promos |-> promos, ret |-> last.ret]

\* The next state is the Board record b; op and arg name the callback that ran.
Becomes(b, op) ==
    /\ squares' = b.squares
    /\ buttons_pressed' = b.buttons_pressed
    /\ turns' = b.turns
    /\ wk_moved' = b.wk_moved
    /\ bk_moved' = b.bk_moved
    /\ wr1_moved' = b.wr1_moved
    /\ wr2_moved' = b.wr2_moved
    /\ br1_moved' = b.br1_moved
    /\ br2_moved' = b.br2_moved
    /\ castled' = b.castled
    /\ move_history' = b.move_history
    /\ highlighted_squares' = b.highlighted_squares
    /\ piece_color' = b.piece_color
    /\ sq1' = b.sq1
    /\ sq1_button' = b.sq1_button
    /\ sq2' = b.sq2
    /\ sq2_button' = b.sq2_button
    /\ promos' = b.promos
    /\ last' = [op |-> op, ret |-> b.ret]

\* The bounds of a run.  The buttons the user presses and the moves random.choice
\* returns are drawn from one of three sets of squares; every scan of the program
\* still visits all 64.  PawnRun holds the run of the white d-pawn to b8 and the
\* black king's knight to answer it; Opening holds the white queen, king and
\* e-pawn and the black f-pawn; Corners holds the kings, the four rooks and the
\* pawns in front of them.  At most MaxMoves moves (MaxOpening in Opening,
\* MaxCorners in Corners) are committed in a run, over all games, and Restart is
\* pressed at most MaxRestarts times.
PawnRun == {"d2", "d4", "d5", "d6", "c7", "b8", "g8", "f6"}
Opening == {"d1", "e1", "e2", "e4", "f7", "f5", "h5"}
Corners == {"a1", "a2", "h1", "h2", "e1", "e2", "a8", "a7", "h8", "h7", "e8", "e7"}
MaxMoves == 10
MaxOpening == 4
MaxCorners == 3
MaxRestarts == 1

\* Board.__init__ (lines 29-45): the state after construction.
Init ==
    /\ squares = set_pieces
    /\ buttons_pressed = 0
    /\ turns = 0
    /\ wk_moved = FALSE /\ bk_moved = FALSE
    /\ wr1_moved = FALSE /\ wr2_moved = FALSE
    /\ br1_moved = FALSE /\ br2_moved = FALSE
    /\ castled = FALSE
    /\ move_history = <<>>
    /\ highlighted_squares = <<>>
    /\ piece_color = None
    /\ sq1 = None /\ sq1_button = None
    /\ sq2 = None /\ sq2_button = None
    /\ promos = <<>>
    /\ last = [op |-> "__init__", ret |-> "ok"]
    /\ restarts = 0
    /\ played = 0
    /\ drawn \in {PawnRun, Opening, Corners}

(***************************************************************************)
(* select_piece                                                            *)
(***************************************************************************)

\* Lines 170-174, reached after a committed move and after a move refused for its
\* pattern or for friendly fire.  buttons_pressed is not touched here.
EndOfSecondClick(b, ret) ==
    [b EXCEPT !.castled = FALSE, !.highlighted_squares = <<>>,
              !.piece_color = None, !.ret = ret]

\* CommitMove as it would be if the rook flags were not keyed by the square
\* the rook leaves.
CommitMove_any_origin(b, moved, p1, prev_sq1, prev_sq2) ==
    LET promotes == \/ moved[b.sq2_button] = "wp" /\ RankNum(prev_sq2) = 8
                    \/ moved[b.sq2_button] = "bp" /\ RankNum(prev_sq2) = 1
    IN  EndOfSecondClick(
          [b EXCEPT !.squares = moved,
                    !.wk_moved = @ \/ p1 = "wk",
                    !.bk_moved = @ \/ p1 = "bk",
                    !.wr1_moved = @ \/ p1 = "wr",
                    !.wr2_moved = @ \/ p1 = "wr",
                    !.br1_moved = @ \/ p1 = "br",
                    !.br2_moved = @ \/ p1 = "br",
                    !.buttons_pressed = 0,
                    !.turns = @ + 1,
                    !.move_history = Append(@, <<prev_sq1, prev_sq2, get_piece_name(p1)>>),
                    !.promos = IF promotes THEN Append(@, b.piece_color) ELSE @],
          "committed")

\* Lines 143-168: the move stays on the board.  p1 is the image that moved,
\* prev_sq1 and prev_sq2 the keys saved before the move was made.
CommitMove(b, moved, p1, prev_sq1, prev_sq2) ==
    LET promotes == \/ moved[b.sq2_button] = "wp" /\ RankNum(prev_sq2) = 8
                    \/ moved[b.sq2_button] = "bp" /\ RankNum(prev_sq2) = 1
    IN  EndOfSecondClick(
          [b EXCEPT !.squares = moved,
                    !.wk_moved = @ \/ p1 = "wk",
                    !.bk_moved = @ \/ p1 = "bk",
                    !.wr1_moved = @ \/ (p1 = "wr" /\ prev_sq1 = "a1"),
                    !.wr2_moved = @ \/ (p1 = "wr" /\ prev_sq1 = "h1"),
                    !.br1_moved = @ \/ (p1 = "br" /\ prev_sq1 = "a8"),
                    !.br2_moved = @ \/ (p1 = "br" /\ prev_sq1 = "h8"),
                    !.buttons_pressed = 0,
                    !.turns = @ + 1,
                    !.move_history = Append(@, <<prev_sq1, prev_sq2, get_piece_name(p1)>>),
                    !.promos = IF promotes THEN Append(@, b.piece_color) ELSE @],
          "committed")

\* Lines 133-168: what select_piece does with the answer chk of in_check.  moved
\* is the board with the move made, p1 and p2 the images saved before it.
AfterCheck(b, moved, p1, p2, chk) ==
    IF chk.result \in Errors
    THEN [b EXCEPT !.squares = moved,
                   !.sq1 = chk.sq1, !.sq1_button = chk.sq1_button,
                   !.sq2 = chk.sq2, !.sq2_button = chk.sq2_button,
                   !.ret = chk.result]
    ELSE IF chk.result = "True" /\ ~b.castled
    THEN [b EXCEPT !.squares = [moved EXCEPT ![b.sq2] = p2, ![b.sq1] = p1],
                   !.sq1 = chk.sq1, !.sq1_button = chk.sq1_button,
                   !.sq2 = chk.sq2, !.sq2_button = chk.sq2_button,
                   !.buttons_pressed = 0, !.ret = "selfcheck"]
    ELSE CommitMove([b EXCEPT !.sq1 = chk.sq1, !.sq1_button = chk.sq1_button,
                              !.sq2 = chk.sq2, !.sq2_button = chk.sq2_button],
                    moved, p1, b.sq1, b.sq2)

\* Lines 119-133: the move is put on the board and in_check is asked.
MakeMove(b, moved) ==
    AfterCheck(b, moved, b.squares[b.sq1_button], b.squares[b.sq2_button],
               in_check(moved, b.piece_color, b.sq1, b.sq1_button, b.sq2, b.sq2_button))

\* TryMove as it would be if the square the piece leaves were not blanked.
TryMove_copies(b) ==
    MakeMove(b, [b.squares EXCEPT ![b.sq2] = b.squares[b.sq1_button]])

TryMove(b) ==
    MakeMove(b, [b.squares EXCEPT ![b.sq2] = b.squares[b.sq1_button],
                                  ![b.sq1] = blank_image])

\* ClickColor as it would be if the turn were not looked at.
ClickColor_any_turn(b, button) ==
    IF b.squares[button] \in white_pieces THEN "white"
    ELSE IF b.squares[button] \in black_pieces THEN "black"
    ELSE None

\* The colour a first click selects (lines 83-88), None when the click is ignored.
ClickColor(b, button) ==
    IF b.squares[button] \in white_pieces /\ b.turns % 2 = 0 THEN "white"
    ELSE IF b.squares[button] \in black_pieces /\ b.turns % 2 = 1 THEN "black"
    ELSE None

\* Lines 90-105, given the index stop of the key at which the scan ends: the
\* first key for which allowed_piece_move raises, else the last key.
Select(b, button, color, stop) ==
    LET R(k) == allowed_piece_move(b.squares, button, button, k, k)
        Lit(k) == /\ KeyIndex[k] <= stop
                  /\ R(k) = "True"
                  /\ ~friendly_fire(b.squares, color, k)
        Ret(r) == IF r \in Errors THEN r ELSE "selected"
    IN  [b EXCEPT !.piece_color = color,
                  !.sq1 = button, !.sq1_button = button,
                  !.buttons_pressed = 1,
                  !.highlighted_squares = SelectSeq(SquareKeys, Lit),
                  !.sq2 = SquareKeys[stop], !.sq2_button = SquareKeys[stop],
                  !.ret = Ret(R(SquareKeys[stop]))]

\* The index at which a scan over all keys ends, given the indexes that raise.
ScanStop(raised) == IF raised = {} THEN Len(SquareKeys) ELSE MinOf(raised)

\* Lines 81-105: the first click.  The two scans (highlight_legal_moves, then the
\* window-title loop) run allowed_piece_move from the clicked button to every key
\* in dictionary order; the first one that raises ends the callback.
FirstClick(b, button) ==
    IF ClickColor(b, button) = None THEN [b EXCEPT !.ret = "ignored"]
    ELSE Select(b, button, ClickColor(b, button),
                ScanStop({i \in 1..Len(SquareKeys) :
                    allowed_piece_move(b.squares, button, button,
                                       SquareKeys[i], SquareKeys[i]) \in Errors}))

\* Lines 119-174, given the answer r of allowed_piece_move.
Attempt(c, r) ==
    IF r \in Errors THEN [c EXCEPT !.ret = r]
    ELSE IF r = "True" /\ ~friendly_fire(c.squares, c.piece_color, c.sq2_button)
    THEN TryMove(c)
    ELSE EndOfSecondClick(c, "rejected")

\* Clicked as it would be without the test of line 113.
Clicked_no_cancel(c) ==
    Attempt(c, allowed_piece_move(c.squares, c.sq1, c.sq1_button, c.sq2, c.sq2_button))

\* Lines 108-116, with sq2 and sq2_button already set to the clicked button.
Clicked(c) ==
    IF c.sq2 = c.sq1 THEN [c EXCEPT !.buttons_pressed = 0, !.ret = "cancelled"]
    ELSE Attempt(c, allowed_piece_move(c.squares, c.sq1, c.sq1_button,
                                       c.sq2, c.sq2_button))

\* Lines 108-174: the second click.
SecondClick(b, button) ==
    Clicked([b EXCEPT !.sq2 = button, !.sq2_button = button])

\* select_piece(button): clear_highlights first, then by buttons_pressed.
select_piece(b, button) ==
    IF b.buttons_pressed = 0
    THEN FirstClick([b EXCEPT !.highlighted_squares = <<>>], button)
    ELSE IF b.buttons_pressed = 1
    THEN SecondClick([b EXCEPT !.highlighted_squares = <<>>], button)
    ELSE [b EXCEPT !.highlighted_squares = <<>>, !.buttons_pressed = 0,
                   !.ret = "fallback"]

(***************************************************************************)
(* random_ai_move, the promotion dialog, restart_game                      *)
(***************************************************************************)

\* The scan of lines 533-542: for every button i (an index into the dictionary
\* order) showing a piece of the side to move and every target j, the triple
\* <<i, j, what allowed_piece_move answers>>.
ai_scan(b) ==
    {<<p[1], p[2], allowed_piece_move(b.squares, SquareKeys[p[1]], SquareKeys[p[1]],
                                      SquareKeys[p[2]], SquareKeys[p[2]])>> :
        p \in {i \in 1..Len(SquareKeys) :
                  b.squares[SquareKeys[i]] \in
                      (IF b.turns % 2 = 1 THEN black_pieces ELSE white_pieces)}
              \X (1..Len(SquareKeys))}

\* Whether pair (or triple) p is scanned before q, or at q.
ScanBefore(p, q) == p[1] < q[1] \/ (p[1] = q[1] /\ p[2] <= q[2])

\* The first of a non-empty set of scanned pairs, and the last pair of a scan.
FirstPair(S) == CHOOSE p \in S : \A q \in S : ScanBefore(p, q)
LastPair(S) == <<MaxOf({p[1] : p \in S}), Len(SquareKeys)>>

\* movable (line 542): allowed_piece_move and not friendly_fire, with the
\* piece_color the board happens to hold when random_ai_move is called.
movable(b, scan) ==
    {p \in scan :
        p[3] = "True" /\ ~friendly_fire(b.squares, b.piece_color, SquareKeys[p[2]])}

\* What the scan leaves behind: the pairs visited, those that raised, movable.
ScanResult(b, scan) ==
    [visited |-> scan,
     raised |-> {p \in scan : p[3] \in Errors},
     movable |-> movable(b, scan)]

\* The board with the four fields at the scanned pair p.
ScanAt(b, p, ret) ==
    [b EXCEPT !.sq1 = SquareKeys[p[1]], !.sq1_button = SquareKeys[p[1]],
              !.sq2 = SquareKeys[p[2]], !.sq2_button = SquareKeys[p[2]], !.ret = ret]

\* random_ai_move, given what its scan found and the pair move that random.choice
\* returns.  A scan that raises ends the callback with the four fields at the
\* raising pair; an empty movable leaves them at the last pair scanned; otherwise
\* the fields are set to the chosen move and select_piece is called with the
\* target's button (lines 545-548).
random_ai_move(b, found, move) ==
    IF found.raised # {} THEN ScanAt(b, FirstPair(found.raised), "KeyError")
    ELSE IF found.visited = {} THEN [b EXCEPT !.ret = "no_moves"]
    ELSE IF found.movable = {} THEN ScanAt(b, LastPair(found.visited), "no_moves")
    ELSE select_piece([b EXCEPT !.sq1 = SquareKeys[move[1]],
                                !.sq1_button = SquareKeys[move[1]],
                                !.sq2 = SquareKeys[move[2]],
                                !.sq2_button = SquareKeys[move[2]]],
                      SquareKeys[move[2]])

\* return_piece (lines 198-201) of the i-th open dialog, for the button "Knight",
\* "Bishop", "Rook" or "Queen" (kind n, b, r, q): the image goes to the button at
\* self.sq2 as it is when the button is pressed, and the dialog is destroyed.
return_piece(b, i, kind) ==
    LET piece_img == IF b.promos[i] = "white"
                     THEN CASE kind = "n" -> "wn" [] kind = "b" -> "wb"
                            [] kind = "r" -> "wr" [] OTHER -> "wq"
                     ELSE CASE kind = "n" -> "bn" [] kind = "b" -> "bb"
                            [] kind = "r" -> "br" [] OTHER -> "bq"
    IN  IF b.sq2 = None THEN [b EXCEPT !.ret = "KeyError"]
        ELSE [b EXCEPT !.squares = [@ EXCEPT ![b.sq2] = piece_img],
                       !.promos = SubSeq(@, 1, i - 1) \o SubSeq(@, i + 1, Len(@)),
                       !.ret = "promoted"]

\* restart_game as it would be if the history were not cleared.
restart_game_keeps_history(b) ==
    [b EXCEPT !.squares = set_pieces,
              !.buttons_pressed = 0,
              !.turns = 0,
              !.wk_moved = FALSE, !.bk_moved = FALSE,
              !.wr1_moved = FALSE, !.wr2_moved = FALSE,
              !.br1_moved = FALSE, !.br2_moved = FALSE,
              !.castled = FALSE,
              !.ret = "restarted"]

\* restart_game (lines 553-566).
restart_game(b) ==
    [b EXCEPT !.squares = set_pieces,
              !.buttons_pressed = 0,
              !.turns = 0,
              !.wk_moved = FALSE, !.bk_moved = FALSE,
              !.wr1_moved = FALSE, !.wr2_moved = FALSE,
              !.br1_moved = FALSE, !.br2_moved = FALSE,
              !.castled = FALSE,
              !.move_history = <<>>,
              !.ret = "restarted"]

(***************************************************************************)
(* The events a user can cause.                                            *)
(***************************************************************************)

\* Whether another move may be committed in this run.
MayPlay ==
    played < (IF drawn = PawnRun THEN MaxMoves
              ELSE IF drawn = Opening THEN MaxOpening ELSE MaxCorners)

\* A board button is pressed.
Click(button) ==
    /\ MayPlay
    /\ Becomes(select_piece(Board, button), "select_piece")
    /\ played' = played + (turns' - turns)
    /\ UNCHANGED <<restarts, drawn>>

\* What random.choice can return: a pair of movable with both squares among the
\* ones the run draws from; when the scan raises or movable is empty nothing
\* is chosen (the pair <<0, 0>> stands for that).
Choices(found) ==
    IF found.raised # {} \/ found.movable = {} THEN {<<0, 0>>}
    ELSE {p \in found.movable :
             SquareKeys[p[1]] \in drawn /\ SquareKeys[p[2]] \in drawn}

AiStep(b, found) ==
    \E move \in Choices(found) :
        Becomes(random_ai_move(b, found, move), "random_ai_move")

\* The "AI Move" button (or the key "a").
RandomAiMove ==
    /\ MayPlay
    /\ AiStep(Board, ScanResult(Board, ai_scan(Board)))
    /\ played' = played + (turns' - turns)
    /\ UNCHANGED <<restarts, drawn>>

\* A button of the i-th open promotion dialog is pressed.  A dialog opened with
\* a colour other than "white" or "black" has no buttons.
ReturnPiece(i, kind) ==
    /\ promos[i] \in {"white", "black"}
    /\ Becomes(return_piece(Board, i, kind), "return_piece")
    /\ UNCHANGED <<restarts, played, drawn>>

\* The Restart button is pressed.
Restart ==
    /\ restarts < MaxRestarts
    /\ Becomes(restart_game(Board), "restart_game")
    /\ restarts' = restarts + 1
    /\ UNCHANGED <<played, drawn>>

Next ==
    \/ \E button \in drawn : Click(button)
    \/ RandomAiMove
    \/ \E i \in DOMAIN promos, kind \in {"n", "b", "r", "q"} : ReturnPiece(i, kind)
    \/ Restart

Spec == Init /\ [][Next]_vars

(***************************************************************************)
(* allowed_piece_move on its own, asked about boards that are drawn rather  *)
(* than played: a slider, a king or a pawn on its square, at most MaxOthers *)
(* other pieces anywhere, and every one of the 64 targets.                  *)
(***************************************************************************)

\* The sliding pieces and the kings, the squares one of them is put on (a
\* corner, the centre, an edge), the pawns and the squares one of them is put on
\* (the two home ranks, the centre, an edge), the other pieces put on the board
\* (one of each colour) and how many.
Sliders == {"wr", "wb", "wq", "br", "bb", "bq"}
Kings == {"wk", "bk"}
Origins == {"a1", "d4", "h5"}
Pawns == {"wp", "bp"}
PawnOrigins == {"b2", "g7", "d4", "h5"}
Others == {"wp", "bn"}
MaxOthers == 1

\* Every button shows the blank image, as set_pieces leaves ranks 3 to 6.
all_blank == [k \in KeySet |-> blank_image]

\* The boards with at most n of the other pieces.
RECURSIVE Scattered(_)
Scattered(n) ==
    IF n = 0 THEN {all_blank}
    ELSE Scattered(n - 1) \cup
         {[board EXCEPT ![k] = img] :
             board \in Scattered(n - 1), k \in KeySet, img \in Others}

\* A Board whose buttons were configured by hand: the piece is selected as a
\* first click leaves it (sq1 and sq1_button at its square), no target yet.
InitPattern ==
    /\ \E board \in Scattered(MaxOthers),
          p \in (Origins \X (Sliders \cup Kings)) \cup (PawnOrigins \X Pawns) :
          /\ squares = [board EXCEPT ![p[1]] = p[2]]
          /\ sq1 = p[1] /\ sq1_button = p[1]
    /\ buttons_pressed = 0
    /\ turns = 0
    /\ wk_moved = FALSE /\ bk_moved = FALSE
    /\ wr1_moved = FALSE /\ wr2_moved = FALSE
    /\ br1_moved = FALSE /\ br2_moved = FALSE
    /\ castled = FALSE
    /\ move_history = <<>>
    /\ highlighted_squares = <<>>
    /\ piece_color = None
    /\ sq2 = None /\ sq2_button = None
    /\ promos = <<>>
    /\ last = [op |-> "__init__", ret |-> "ok"]
    /\ restarts = 0
    /\ played = 0
    /\ drawn = KeySet

\* The target fields are set to the button sq, as the scans of lines 100-102 and
\* 286-288 set them, and allowed_piece_move is asked; last holds its answer.
\* Each drawn board is asked about one target.
AskAllowedPieceMove(sq) ==
    /\ last.op = "__init__"
    /\ sq2' = sq /\ sq2_button' = sq
    /\ last' = [op |-> "allowed_piece_move",
                ret |-> allowed_piece_move(squares, sq1, sq1_button, sq, sq)]
    /\ UNCHANGED <<squares, buttons_pressed, turns, wk_moved, bk_moved, wr1_moved,
                   wr2_moved, br1_moved, br2_moved, castled, move_history,
                   highlighted_squares, piece_color, sq1, sq1_button, promos,
                   restarts, played, drawn>>

NextPattern == \E sq \in drawn : AskAllowedPieceMove(sq)

SpecPattern == InitPattern /\ [][NextPattern]_vars

(***************************************************************************)
(* Properties of the committed moves.                                      *)
(***************************************************************************)

\* The colour of the piece an image shows, None for the blank image.
ColorOf(img) ==
    IF img \in white_pieces THEN "white"
    ELSE IF img \in black_pieces THEN "black" ELSE None

\* Whether a piece out of enemy has a pattern-legal move onto the square king.
AttackedAt(board, enemy, king) ==
    /\ king # None
    /\ \E s \in KeySet :
          /\ board[s] \in enemy
          /\ allowed_piece_move(board, s, s, king, king) = "True"

\* Whether the king of the given colour is attacked on the board.
Attacked(board, color) ==
    IF color = "white" THEN AttackedAt(board, black_pieces, find_king(board, "wk"))
    ELSE AttackedAt(board, white_pieces, find_king(board, "bk"))

\* A step that commits a move, and the record it appends to the history.
Committed == turns' = turns + 1
Record == move_history'[Len(move_history')]

\* C1: immediately after every committed move the king of the colour of the
\* piece that moved is not attacked by any piece of the other colour.
C1_NoSelfCheck ==
    [][Committed => ~Attacked(squares', ColorOf(squares[Record[1]]))]_vars

\* C2: whenever a move is committed, its target square was, just before the
\* move, empty or held a piece of the colour opposite to the moved piece.
C2_NoFriendlyFire ==
    [][Committed => ColorOf(squares[Record[2]]) # ColorOf(squares[Record[1]])]_vars

\* C3: a second click that commits no move leaves the 64 squares, the six
\* castling flags, the half-move counter and the move history as they were.
C3_RejectionAtomic ==
    [][(last'.op = "select_piece" /\ buttons_pressed = 1 /\ ~Committed)
         => UNCHANGED <<squares, wk_moved, bk_moved, wr1_moved, wr2_moved,
                        br1_moved, br2_moved, turns, move_history>>]_vars

\* C4: the k-th committed move since the last reset moves a White piece when k
\* is even and a Black piece when k is odd.
C4_TurnAlternation ==
    [][Committed =>
         ColorOf(squares[Record[1]]) = (IF turns % 2 = 0 THEN "white" ELSE "black")]_vars

\* C5: every reachable board holds exactly one White king and one Black king.
C5_OneKingEach ==
    /\ Cardinality({s \in KeySet : squares[s] = "wk"}) = 1
    /\ Cardinality({s \in KeySet : squares[s] = "bk"}) = 1

(***************************************************************************)
(* Properties of random_ai_move, of the promotion dialog and of restart.   *)
(***************************************************************************)

\* The side to move at a half-move count, and the images of a side.
SideToMove(n) == IF n % 2 = 0 THEN "white" ELSE "black"
PiecesOf(color) == IF color = "white" THEN white_pieces ELSE black_pieces

\* The board after the piece on s has gone to t.
Moved(board, s, t) == [board EXCEPT ![t] = board[s], ![s] = blank_image]

\* A fully legal move of a side: its origin holds a piece of the side, the move
\* is pattern-legal, the target holds no piece of the side, and the move does
\* not leave the side's own king attacked.
FullyLegal(board, color, s, t) ==
    /\ board[s] \in PiecesOf(color)
    /\ allowed_piece_move(board, s, s, t, t) = "True"
    /\ board[t] \notin PiecesOf(color)
    /\ ~Attacked(Moved(board, s, t), color)

HasLegalMove(board, color) ==
    \E s \in KeySet : board[s] \in PiecesOf(color) /\
        \E t \in KeySet : FullyLegal(board, color, s, t)

\* C6: when the side to move has a fully legal move, one call of random_ai_move
\* commits exactly one move: the board changes by that move, the half-move
\* counter advances by one and one record is appended to the history, whether
\* or not a square is selected.
C6_AiCommitsOneMove ==
    [][(last'.op = "random_ai_move" /\ HasLegalMove(squares, SideToMove(turns)))
         => /\ Committed
            /\ Len(move_history') = Len(move_history) + 1
            /\ squares' = Moved(squares, Record[1], Record[2])]_vars

\* Whether every pair a scan left in movable is a fully legal move.
AllFullyLegal(found) ==
    \A p \in found.movable :
        FullyLegal(squares, SideToMove(turns), SquareKeys[p[1]], SquareKeys[p[2]])

\* C7: every move random_ai_move can choose from movable is a fully legal move
\* of the side to move.
C7_ChoiceIsLegal == AllFullyLegal(ScanResult(Board, ai_scan(Board)))

\* A pawn stands on its farthest rank.
PromotionPending ==
    \E s \in KeySet : \/ squares[s] = "wp" /\ RankNum(s) = 8
                      \/ squares[s] = "bp" /\ RankNum(s) = 1

\* C8: while a pawn stands on its farthest rank, a click or a random-move
\* request commits no move and leaves the board, the half-move counter and the
\* history unchanged.
C8_PromotionBlocksPlay ==
    [][(PromotionPending /\ last'.op \in {"select_piece", "random_ai_move"})
         => UNCHANGED <<squares, turns, move_history>>]_vars

\* C9: pressing a button of the promotion dialog replaces a pawn standing on its
\* farthest rank by a knight, bishop, rook or queen of the pawn's colour, and
\* changes no other square.
C9_PromotionReplacesPawn ==
    [][last'.op = "return_piece" =>
         \E s \in KeySet :
            \/ /\ squares[s] = "wp" /\ RankNum(s) = 8
               /\ \E img \in {"wn", "wb", "wr", "wq"} :
                     squares' = [squares EXCEPT ![s] = img]
            \/ /\ squares[s] = "bp" /\ RankNum(s) = 1
               /\ \E img \in {"bn", "bb", "br", "bq"} :
                     squares' = [squares EXCEPT ![s] = img]]_vars

\* The state restart_game is to produce.
Fresh ==
    /\ squares = set_pieces
    /\ move_history = <<>>
    /\ turns = 0
    /\ ~(wk_moved \/ bk_moved \/ wr1_moved \/ wr2_moved \/ br1_moved \/ br2_moved)
    /\ buttons_pressed = 0

\* C10: restart_game yields the starting position, an empty history, a
\* half-move counter of 0, six false flags and no selection; and afterwards, as
\* long as no move has been committed, the board stays the starting position.
C10_RestartIsClean ==
    [][/\ last'.op = "restart_game" => Fresh'
       /\ (restarts > 0 /\ squares = set_pieces /\ turns = 0 /\ turns' = 0)
             => squares' = set_pieces]_vars

(***************************************************************************)
(* Properties of the selection and of the highlighted squares.             *)
(***************************************************************************)

\* A click on the button t would commit a move.
WouldCommit(t) == select_piece(Board, t).turns = turns + 1

\* C11: after a click has selected a square, the highlighted squares are exactly
\* the targets to which a move of the selected piece would be committed.
C11_HighlightsAreExact ==
    (last.op = "select_piece" /\ last.ret = "selected")
        => \A t \in KeySet :
              (\E i \in DOMAIN highlighted_squares : highlighted_squares[i] = t)
                  <=> WouldCommit(t)

\* C12: while a square is selected, it is not among the highlighted squares.
C12_SelectedNotHighlighted ==
    buttons_pressed = 1 =>
        \A i \in DOMAIN highlighted_squares : highlighted_squares[i] # sq1

\* A queen is selected, squares are highlighted, and the pattern alone would
\* let the queen move to its own square.
C12_Witness ==
    /\ buttons_pressed = 1
    /\ last.ret = "selected"
    /\ squares[sq1] \in {"wq", "bq"}
    /\ highlighted_squares # <<>>
    /\ allowed_piece_move(squares, sq1, sq1, sq1, sq1) = "True"

\* C13: a second click whose move is refused, for its pattern, for friendly fire
\* or because it leaves the mover's king attacked, leaves no square selected:
\* buttons_pressed is 0 afterwards.
C13_RejectionReturnsToIdle ==
    [][(last'.op = "select_piece" /\ last'.ret \in {"rejected", "selfcheck"})
          => buttons_pressed' = 0]_vars

\* The part of the state a click that only selects must leave alone.
Position(b) ==
    <<b.squares, b.turns, b.wk_moved, b.bk_moved, b.wr1_moved, b.wr2_moved,
      b.br1_moved, b.br2_moved, b.move_history>>

\* The board r that a click on button leaves from the board b is b with, at
\* most, the button selected, and then the button shows a piece of the side to
\* move; a button that is blank or shows a piece of the other side is not selected.
FirstClickSelects(b, r, button) ==
    /\ Position(r) = Position(b)
    /\ r.buttons_pressed \in {0, 1}
    /\ r.buttons_pressed = 1 =>
          /\ r.sq1 = button
          /\ ColorOf(b.squares[button]) = SideToMove(b.turns)
    /\ ColorOf(b.squares[button]) # SideToMove(b.turns) => r.buttons_pressed = 0

\* C14: when no square is selected, a click selects the clicked square only if
\* it holds a piece of the side to move, a click on a blank square or on a piece
\* of the other side selects nothing, and either way the board, turns, the six
\* flags and the history stay as they are.
C14_FirstClickOnlySelects ==
    buttons_pressed = 0 =>
        \A button \in drawn :
            FirstClickSelects(Board, select_piece(Board, button), button)

\* A click was just ignored in a game in which both sides have moved, and the
\* squares at hand hold a piece of either side and a blank one.
C14_Witness ==
    /\ last.op = "select_piece" /\ last.ret = "ignored"
    /\ buttons_pressed = 0
    /\ turns >= 2
    /\ \A c \in {"white", "black", None} : \E button \in drawn : ColorOf(squares[button]) = c

\* The board r that a click leaves from the board b has no square selected, the
\* position of b, and comes from the return of line 116, before any move is tried.
Cancels(b, r) ==
    /\ r.buttons_pressed = 0
    /\ Position(r) = Position(b)
    /\ r.ret = "cancelled"

\* C15: while a square is selected, a click on that square cancels the selection:
\* no square is selected afterwards, the board, turns, the six flags and the
\* history stay as they are, and no move is tried.
C15_SameSquareCancels ==
    buttons_pressed = 1 => Cancels(Board, select_piece(Board, sq1))

\* A selection was just cancelled by a click, in a game with moves played.
C15_Witness ==
    /\ last.op = "select_piece" /\ last.ret = "cancelled"
    /\ buttons_pressed = 0
    /\ move_history # <<>>
    /\ squares[sq1] # blank_image

(***************************************************************************)
(* Properties of the move patterns.                                        *)
(***************************************************************************)

\* The squares strictly between s and t when they are distinct and share a
\* file, a rank or a diagonal; no square otherwise.
Between(s, t) ==
    LET dx == FileIdx(t) - FileIdx(s)
        dy == RankNum(t) - RankNum(s)
    IN  IF s # t /\ (dx = 0 \/ dy = 0 \/ Abs(dx) = Abs(dy))
        THEN {Key(FileIdx(s) + n * Sgn(dx), RankNum(s) + n * Sgn(dy)) :
                 n \in 1..(MaxOf({Abs(dx), Abs(dy)}) - 1)}
        ELSE {}

\* Whether s and t are distinct and on a line along which the piece img slides.
AlignedFor(img, s, t) ==
    /\ s # t
    /\ \/ img \in {"wr", "br", "wq", "bq"}
          /\ (FileIdx(s) = FileIdx(t) \/ RankNum(s) = RankNum(t))
       \/ img \in {"wb", "bb", "wq", "bq"}
          /\ Abs(FileIdx(s) - FileIdx(t)) = Abs(RankNum(s) - RankNum(t))

\* C16: allowed_piece_move refuses the move of a rook, bishop or queen when a
\* square strictly between origin and target, on the file, rank or diagonal they
\* share, holds a piece of either colour; and allows it when the two squares are
\* distinct, on a line the piece slides along, and all squares between are blank.
C16_SlidingLegality ==
    (last.op = "allowed_piece_move" /\ squares[sq1] \in Sliders) =>
        /\ (\E k \in Between(sq1, sq2) : squares[k] # blank_image)
              => last.ret = "False"
        /\ (AlignedFor(squares[sq1], sq1, sq2)
               /\ \A k \in Between(sq1, sq2) : squares[k] = blank_image)
              => last.ret = "True"

\* A white rook was asked about a target up its file, past a black piece, and
\* refused.
C16_Witness ==
    /\ last.op = "allowed_piece_move" /\ last.ret = "False"
    /\ squares[sq1] = "wr"
    /\ FileIdx(sq1) = FileIdx(sq2)
    /\ \E k \in Between(sq1, sq2) : squares[k] \in black_pieces

(***************************************************************************)
(* Properties of the six flags.                                            *)
(***************************************************************************)

\* The step is a committed move of the piece img away from one of the origins.
Leaves(img, origins) ==
    /\ Committed
    /\ \E k \in origins : squares[k] = img /\ squares'[k] = blank_image

\* The flag (moved now, moved_next after the step) is cleared by restart_game,
\* raised by a committed move of img from one of the origins, and kept otherwise.
Follows(moved, moved_next, img, origins) ==
    moved_next <=> (last'.op # "restart_game" /\ (moved \/ Leaves(img, origins)))

FlagsFollowMoves ==
    /\ Follows(wk_moved, wk_moved', "wk", KeySet)
    /\ Follows(bk_moved, bk_moved', "bk", KeySet)
    /\ Follows(wr1_moved, wr1_moved', "wr", {"a1"})
    /\ Follows(wr2_moved, wr2_moved', "wr", {"h1"})
    /\ Follows(br1_moved, br1_moved', "br", {"a8"})
    /\ Follows(br2_moved, br2_moved', "br", {"h8"})

\* The history, which restart_game clears with the flags, holds a move of the
\* piece called name from one of the origins.
InHistory(name, origins) ==
    \E i \in DOMAIN move_history :
        move_history[i][3] = name /\ move_history[i][1] \in origins

FlagsMatchHistory ==
    /\ wk_moved <=> InHistory("White K", KeySet)
    /\ bk_moved <=> InHistory("Black K", KeySet)
    /\ wr1_moved <=> InHistory("White R", {"a1"})
    /\ wr2_moved <=> InHistory("White R", {"h1"})
    /\ br1_moved <=> InHistory("Black R", {"a8"})
    /\ br2_moved <=> InHistory("Black R", {"h8"})

\* The board b with each of the six flags negated.
Negated(b) ==
    [b EXCEPT !.wk_moved = ~@, !.bk_moved = ~@, !.wr1_moved = ~@,
              !.wr2_moved = ~@, !.br1_moved = ~@, !.br2_moved = ~@]

\* Two clicks ended the same way, with the same board and the same turns.
SameOutcome(r, n) ==
    /\ r.ret = n.ret
    /\ r.squares = n.squares
    /\ r.turns = n.turns
    /\ r.buttons_pressed = n.buttons_pressed

\* While a square is selected, a click on any button ends the same way whatever
\* the six flags are.
FlagsInert ==
    buttons_pressed = 1 =>
        \A button \in drawn :
            SameOutcome(select_piece(Board, button),
                        select_piece(Negated(Board), button))

\* C17: each of the six flags is true exactly when, since the last restart_game
\* (or the start), a committed move took the piece it stands for away from its
\* origin: a white king (wk_moved), a white rook from a1 / h1 (wr1_moved /
\* wr2_moved), and likewise for black with a8 / h8; a flag falls only at
\* restart_game; and the value of the flags has no part in whether a move is
\* committed.
C17_CastlingBookkeeping ==
    /\ []FlagsMatchHistory
    /\ [][FlagsFollowMoves]_vars
    /\ []FlagsInert

\* After a game in which flags were raised and a restart, the white king has
\* moved in the new game and no rook has.
C17_Witness ==
    /\ restarts = 1
    /\ played = MaxCorners
    /\ Len(move_history) = 1
    /\ wk_moved
    /\ ~(wr1_moved \/ wr2_moved \/ bk_moved \/ br1_moved \/ br2_moved)
    /\ drawn = Corners

\* C18: allowed_piece_move allows the move of a king exactly when the target is
\* at most one file and at most one rank away and is not the king's own square.
C18_KingPattern ==
    (last.op = "allowed_piece_move" /\ squares[sq1] \in Kings) =>
        (last.ret = "True" <=>
            /\ Abs(FileIdx(sq1) - FileIdx(sq2)) <= 1
            /\ Abs(RankNum(sq1) - RankNum(sq2)) <= 1
            /\ sq2 # sq1)

\* C19: for a bishop or a queen on any square and any of the 64 targets, on a
\* diagonal of that square or not, clear_path looks only at buttons that exist
\* and answers True or False; so does allowed_piece_move, which calls it.
C19_ClearPathStaysOnBoard ==
    (last.op = "allowed_piece_move" /\ squares[sq1] \in {"wb", "bb", "wq", "bq"}) =>
        /\ clear_path(squares, IF squares[sq1] \in {"wb", "bb"} THEN "bishop" ELSE "queen",
                      sq1, sq2) \in {"True", "False"}
        /\ last.ret \in {"True", "False"}

\* The pawn on s may go to t: one rank forward (dir) on its file to a blank
\* square; from its home rank two ranks forward on its file with both squares
\* blank; or one rank forward to an adjacent file onto a piece out of prey.
PawnLegal(board, s, t, dir, home, prey) ==
    \/ /\ FileIdx(t) = FileIdx(s) /\ RankNum(t) = RankNum(s) + dir
       /\ board[t] = blank_image
    \/ /\ FileIdx(t) = FileIdx(s) /\ RankNum(s) = home /\ RankNum(t) = home + 2 * dir
       /\ board[Key(FileIdx(s), home + dir)] = blank_image
       /\ board[t] = blank_image
    \/ /\ Abs(FileIdx(t) - FileIdx(s)) = 1 /\ RankNum(t) = RankNum(s) + dir
       /\ board[t] \in prey

\* C21: allowed_piece_move allows the move of a white pawn exactly when it goes
\* one rank up its file to a blank square, from rank 2 to rank 4 of its file
\* with the squares on ranks 3 and 4 blank, or one rank up to an adjacent file
\* onto a black piece; and the move of a black pawn exactly in the mirrored
\* cases (down, from rank 7 to rank 5, onto a white piece).
C21_PawnPattern ==
    (last.op = "allowed_piece_move" /\ squares[sq1] \in Pawns) =>
        (last.ret = "True" <=>
            IF squares[sq1] = "wp"
            THEN PawnLegal(squares, sq1, sq2, 1, 2, black_pieces)
            ELSE PawnLegal(squares, sq1, sq2, -1, 7, white_pieces))

\* A white pawn on rank 2 was asked about rank 4 of its file, which is blank,
\* with a piece on rank 3 in between, and refused.
C21_Witness ==
    /\ last.op = "allowed_piece_move" /\ last.ret = "False"
    /\ squares[sq1] = "wp"
    /\ RankNum(sq1) = 2 /\ RankNum(sq2) = 4 /\ FileIdx(sq1) = FileIdx(sq2)
    /\ squares[sq2] = blank_image
    /\ squares[Key(FileIdx(sq1), 3)] # blank_image

(***************************************************************************)
(* Properties of in_check.                                                 *)
(***************************************************************************)

\* C20: when a click has put a move on the board and asked in_check, the move is
\* taken back as leaving the king attacked exactly when, on the board with the
\* move made, a piece of the other colour has a move allowed by
\* allowed_piece_move onto the king of the colour of the piece that moved.
C20_CheckDetection ==
    [][(last'.op = "select_piece" /\ last'.ret \in {"committed", "selfcheck"})
          => (last'.ret = "selfcheck"
                <=> Attacked(Moved(squares, sq1, sq2_button'), ColorOf(squares[sq1])))]_vars

(***************************************************************************)
(* Properties of the board and of the history.                             *)
(***************************************************************************)

\* C22: a committed move from one square to another leaves the board as it was
\* except that the first square is blank and the second shows the piece that
\* stood on the first (whatever stood on the second is gone); the two squares
\* are those of the move, the selected square and the clicked one when the
\* move is made by a click.
C22_CommittedMoveEffect ==
    [][Committed =>
          /\ Record[1] # Record[2]
          /\ squares[Record[1]] # blank_image
          /\ squares' = Moved(squares, Record[1], Record[2])
          /\ last'.op = "select_piece" => (Record[1] = sq1 /\ Record[2] = sq2')]_vars

\* A move was just committed that took a piece, in a game with both kings.
C22_Witness ==
    /\ last.ret = "committed"
    /\ Cardinality({k \in KeySet : squares[k] # blank_image}) < 32
    /\ squares[move_history[Len(move_history)][2]] \in white_pieces \cup black_pieces
    /\ C5_OneKingEach

\* The piece img reaches its farthest rank on the square t.
LastRank(img, t) ==
    \/ img = "wp" /\ RankNum(t) = 8
    \/ img = "bp" /\ RankNum(t) = 1

\* C23: a committed move opens a promotion dialog exactly when the piece that
\* moved is a white pawn arriving on rank 8 or a black pawn arriving on rank 1,
\* and the dialog is opened for the colour of that pawn.
C23_PromotionEntry ==
    [][Committed =>
          /\ Len(promos') = Len(promos) + 1 <=> LastRank(squares[Record[1]], Record[2])
          /\ Len(promos') \in {Len(promos), Len(promos) + 1}
          /\ LastRank(squares[Record[1]], Record[2])
                => promos'[Len(promos')] = ColorOf(squares[Record[1]])]_vars

\* C24: while a square is selected, piece_color is the side to move by the
\* parity of turns, and the selected square holds a piece of that colour.
C24_SelectionConsistent ==
    buttons_pressed = 1 =>
        /\ piece_color = SideToMove(turns)
        /\ ColorOf(squares[sq1]) = SideToMove(turns)

\* The colour and the kind of a piece, as a record of the history names them.
NameOf(img) ==
    (IF img \in white_pieces THEN "White " ELSE "Black ")
        \o (CASE img \in {"wk", "bk"} -> "K" [] img \in {"wq", "bq"} -> "Q"
              [] img \in {"wr", "br"} -> "R" [] img \in {"wb", "bb"} -> "B"
              [] img \in {"wn", "bn"} -> "N" [] OTHER -> "P")

\* The step moves the piece on some square s to another square t, raises turns
\* by one and appends the one record <<s, t, colour and kind of the piece>>.
AppendsTheMove ==
    /\ turns' = turns + 1
    /\ \E s \in KeySet :
          /\ squares[s] # blank_image /\ squares'[s] = blank_image
          /\ \E t \in KeySet \ {s} :
                /\ squares' = Moved(squares, s, t)
                /\ move_history' = Append(move_history, <<s, t, NameOf(squares[s])>>)

\* restart_game empties the history and zeroes turns; any other step either
\* leaves both alone or is a committed move that appends its record.
HistoryStep ==
    IF last'.op = "restart_game" THEN turns' = 0 /\ move_history' = <<>>
    ELSE IF turns' = turns /\ move_history' = move_history THEN TRUE
    ELSE AppendsTheMove

\* The history has one record for each half-move counted by turns.
HistoryLength == Len(move_history) = turns

\* C25: the history is always as long as turns; a committed move appends one
\* record with its origin, its target and the colour and kind of the piece that
\* moved; nothing but a committed move and restart_game changes turns or the
\* history.
C25_HistoryMatchesTurns ==
    /\ []HistoryLength
    /\ [][HistoryStep]_vars

\* A move was just committed in the second game of a run, after a first game
\* with moves of its own.
C25_Witness ==
    /\ restarts = 1
    /\ last.ret = "committed"
    /\ turns >= 1 /\ Len(move_history) = turns
    /\ played > turns

====
